---- MODULE Spec2Model ----
(***************************************************************************)
(* Model of trigger.py, the Trigger.dev command-line client.               *)
(*                                                                         *)
(* One step of the model is one invocation of the program (main, run      *)
(* under the __main__ handler).  What survives from one invocation to     *)
(* the next is the content of the two cache files, ~/.trigger_last_tasks  *)
(* .json and ~/.trigger_last_runs.json.  Everything else an invocation    *)
(* reads (argv, the environment, the API's answer, the ./tasks folder,    *)
(* the line typed at the prompt) is an input of the step, and what it     *)
(* did (requests issued, lines printed, exit code, uncaught exception)    *)
(* is recorded in the variable last.                                      *)
(***************************************************************************)
EXTENDS Integers, Sequences, FiniteSets, TLC

\* Python's None; also what dict.get returns for a missing key.
None == "<None>"

\* Longest API answer to GET /runs that is enumerated.
MaxRuns == 2

\* Longest API answer to GET /schedules that is enumerated.
MaxSchedules == 1

\* Most files enumerated under ./tasks.
MaxFiles == 1

SeqsUpTo(S, n) == UNION {[1..k -> S] : k \in 0..n}

Has(seq, x) == \E i \in 1..Len(seq) : seq[i] = x

\* [a for a in seq if a not in drop]
Without(seq, drop) == SelectSeq(seq, LAMBDA a : a \notin drop)

(***************************************************************************)
(* Strings.  A Python str is a TLA+ string; the operations that look       *)
(* inside one (lower, strip, in, startswith, endswith, <, isdigit, int)    *)
(* work on its characters, given by chars.                                 *)
(***************************************************************************)
UpperCase == <<"A","B","C","D","E","F","G","H","I","J","K","L","M",
               "N","O","P","Q","R","S","T","U","V","W","X","Y","Z">>

LowerCase == <<"a","b","c","d","e","f","g","h","i","j","k","l","m",
               "n","o","p","q","r","s","t","u","v","w","x","y","z">>

DigitChars == <<"0","1","2","3","4","5","6","7","8","9">>

IndexIn(seq, c) == CHOOSE i \in 1..Len(seq) : seq[i] = c

\* Code point of a character.
ord(c) ==
    IF Has(UpperCase, c) THEN 64 + IndexIn(UpperCase, c)
    ELSE IF Has(LowerCase, c) THEN 96 + IndexIn(LowerCase, c)
    ELSE IF Has(DigitChars, c) THEN 47 + IndexIn(DigitChars, c)
    ELSE IF c = " " THEN 32
    ELSE IF c = "$" THEN 36
    ELSE IF c = "-" THEN 45
    ELSE IF c = "." THEN 46
    ELSE 0

chars ==
    [s \in {"sendEmail", "sendSms", "archiveUser", "Zeta", "$campaignId",
            "send", "SEND", "user", "email.ts", "README.md",
            "0", "1", "2", "3", "4", "5", "03"} |->
        CASE s = "sendEmail"   -> <<"s","e","n","d","E","m","a","i","l">>
          [] s = "sendSms"     -> <<"s","e","n","d","S","m","s">>
          [] s = "archiveUser" -> <<"a","r","c","h","i","v","e","U","s","e","r">>
          [] s = "Zeta"        -> <<"Z","e","t","a">>
          [] s = "$campaignId" -> <<"$","c","a","m","p","a","i","g","n","I","d">>
          [] s = "send"        -> <<"s","e","n","d">>
          [] s = "SEND"        -> <<"S","E","N","D">>
          [] s = "user"        -> <<"u","s","e","r">>
          [] s = "email.ts"    -> <<"e","m","a","i","l",".","t","s">>
          [] s = "README.md"   -> <<"R","E","A","D","M","E",".","m","d">>
          [] s = "0"           -> <<"0">>
          [] s = "1"           -> <<"1">>
          [] s = "2"           -> <<"2">>
          [] s = "3"           -> <<"3">>
          [] s = "4"           -> <<"4">>
          [] s = "5"           -> <<"5">>
          [] s = "03"          -> <<"0","3">>]

\* Characters of a string the table does not spell: some non-digit text.
charsOf(s) == IF s \in DOMAIN chars THEN chars[s] ELSE <<"?">>

lowerChar(c) == IF Has(UpperCase, c) THEN LowerCase[IndexIn(UpperCase, c)] ELSE c

\* str.lower
lower(cs) == [i \in 1..Len(cs) |-> lowerChar(cs[i])]

RECURSIVE lstrip(_)
lstrip(cs) == IF cs # <<>> /\ Head(cs) = " " THEN lstrip(Tail(cs)) ELSE cs

RECURSIVE rstrip(_)
rstrip(cs) ==
    IF cs # <<>> /\ cs[Len(cs)] = " " THEN rstrip(SubSeq(cs, 1, Len(cs) - 1)) ELSE cs

\* str.strip
strip(cs) == rstrip(lstrip(cs))

\* str.startswith
startswith(cs, prefix) ==
    /\ Len(prefix) <= Len(cs)
    /\ SubSeq(cs, 1, Len(prefix)) = prefix

\* str.endswith
endswith(cs, suffix) ==
    /\ Len(suffix) <= Len(cs)
    /\ SubSeq(cs, Len(cs) - Len(suffix) + 1, Len(cs)) = suffix

\* sub in cs
contains(cs, sub) ==
    \E k \in 0..(Len(cs) - Len(sub)) : SubSeq(cs, k + 1, k + Len(sub)) = sub

\* str.isdigit
isdigit(s) ==
    LET cs == charsOf(s)
    IN  cs # <<>> /\ \A i \in 1..Len(cs) : Has(DigitChars, cs[i])

RECURSIVE intOfChars(_)
intOfChars(cs) ==
    IF cs = <<>> THEN 0
    ELSE 10 * intOfChars(SubSeq(cs, 1, Len(cs) - 1)) + (ord(cs[Len(cs)]) - 48)

\* int(s) of an all-digit string
int(s) == intOfChars(charsOf(s))

\* Python's < on str: lexicographic on code points.
RECURSIVE strLess(_, _)
strLess(a, b) ==
    IF b = <<>> THEN FALSE
    ELSE IF a = <<>> THEN TRUE
    ELSE IF ord(Head(a)) # ord(Head(b)) THEN ord(Head(a)) < ord(Head(b))
    ELSE strLess(Tail(a), Tail(b))

RECURSIVE insertSorted(_, _)
insertSorted(sorted_ids, s) ==
    IF sorted_ids = <<>> THEN <<s>>
    ELSE IF strLess(charsOf(s), charsOf(Head(sorted_ids))) THEN <<s>> \o sorted_ids
    ELSE <<Head(sorted_ids)>> \o insertSorted(Tail(sorted_ids), s)

\* sorted(list of str)
RECURSIVE sorted(_)
sorted(ids) ==
    IF ids = <<>> THEN <<>>
    ELSE insertSorted(sorted(SubSeq(ids, 1, Len(ids) - 1)), ids[Len(ids)])

\* A test for None only: x is not None.
is_not_None(x) == x # None

\* Python truthiness of a str-or-None.
truthy(x) == x # None /\ x # ""

(***************************************************************************)
(* The two cache files.  A file is absent, present but not openable,       *)
(* present with text that is not JSON, or present with a JSON document:    *)
(* an array of items, a top-level object, or a top-level number / null.    *)
(* An item of an array is an object (a Python dict, its members a record)  *)
(* or a scalar.                                                            *)
(***************************************************************************)
File(st, top, items) == [st |-> st, top |-> top, items |-> items]

Absent == File("absent", "none", <<>>)

Unreadable == File("unreadable", "none", <<>>)

Garbage == File("garbage", "none", <<>>)

JsonObject(members) == [t |-> "object", members |-> members]

JsonScalar == [t |-> "scalar", members |-> [value |-> 7]]

\* json.dump(entries, f) of a list of dicts, as the document left in the file
json_dump_append(old, entries) ==
    File("json", "array",
         old.items \o [i \in 1..Len(entries) |-> JsonObject(entries[i])])

\* with open(path, "w") as f: json.dump(entries, f): the file is truncated
\* and holds exactly the new document.  old is the file before the call.
json_dump(old, entries) ==
    File("json", "array", [i \in 1..Len(entries) |-> JsonObject(entries[i])])

\* Whether open(path, "w") succeeds.
writable(file) == file.st # "unreadable"

Ret(value) == [exc |-> None, value |-> value]

Raise(exc) == [exc |-> exc, value |-> None]

\* seq[k] of a Python list, k possibly negative
py_index(items, k) ==
    IF 0 <= k /\ k < Len(items) THEN Ret(items[k + 1])
    ELSE IF k < 0 /\ -k <= Len(items) THEN Ret(items[Len(items) + k + 1])
    ELSE Raise("IndexError")

\* item[key] of a value read from JSON
py_getitem(item, key) ==
    IF item.t # "object" THEN Raise("TypeError")
    ELSE IF key \in DOMAIN item.members THEN Ret(item.members[key])
    ELSE Raise("KeyError")

\* The lookup with the ordinal used as the index: entries[number][key].
cache_lookup_no_offset(file, number, key) ==
    IF file.st = "absent" THEN Raise("FileNotFoundError")
    ELSE IF file.st = "unreadable" THEN Raise("PermissionError")
    ELSE IF file.st = "garbage" THEN Raise("JSONDecodeError")
    ELSE IF file.top = "object" THEN Raise("KeyError")
    ELSE IF file.top = "scalar" THEN Raise("TypeError")
    ELSE LET item == py_index(file.items, number)
         IN  IF item.exc # None THEN item ELSE py_getitem(item.value, key)

\* The body of the try block of get_cached_task / get_cached_run.
cache_lookup(file, number, key) ==
    IF file.st = "absent" THEN Raise("FileNotFoundError")
    ELSE IF file.st = "unreadable" THEN Raise("PermissionError")
    ELSE IF file.st = "garbage" THEN Raise("JSONDecodeError")
    ELSE IF file.top = "object" THEN Raise("KeyError")
    ELSE IF file.top = "scalar" THEN Raise("TypeError")
    ELSE LET item == py_index(file.items, number - 1)
         IN  IF item.exc # None THEN item ELSE py_getitem(item.value, key)

Caught == {"FileNotFoundError", "IndexError", "KeyError"}

\* except (FileNotFoundError, IndexError, KeyError): return None
except_return_None(r) == IF r.exc \in Caught THEN Ret(None) ELSE r

get_cached_task(file, number) == except_return_None(cache_lookup(file, number, "id"))

get_cached_run(file, number) == except_return_None(cache_lookup(file, number, "run_id"))

(***************************************************************************)
(* The confirmation prompt.  What input() gives is a line of text, or it   *)
(* raises EOFError or KeyboardInterrupt.                                   *)
(***************************************************************************)
TypedLine(cs) == [kind |-> "line", text |-> cs]

NoAnswer == [kind |-> "not asked", text |-> <<>>]

Answers ==
    { TypedLine(<<>>), TypedLine(<<"y">>), TypedLine(<<" ","Y","E","S"," ">>),
      TypedLine(<<"n","o">>),
      [kind |-> "EOFError", text |-> <<>>],
      [kind |-> "KeyboardInterrupt", text |-> <<>>] }

\* A prompt whose default is yes: the empty line confirms.
confirm_default_yes(answer) ==
    /\ answer.kind = "line"
    /\ lower(strip(answer.text)) \in {<<>>, <<"y">>, <<"y","e","s">>}

confirm(answer) ==
    /\ answer.kind = "line"
    /\ lower(strip(answer.text)) \in {<<"y">>, <<"y","e","s">>}

(***************************************************************************)
(* What one invocation reads besides argv and the cache files (c), and     *)
(* what it does (an effect record).                                        *)
(*   c.API_KEY    TRIGGER_SECRET_KEY, None when unset                      *)
(*   c.ok, c.data the API's answer to the one request of the invocation:   *)
(*                success and the "data" array, or an error status         *)
(*   c.tasks_dir  the ./tasks folder of the working directory              *)
(*   c.answer     what input() gives at the prompt, if it is reached       *)
(***************************************************************************)
Line(text) == [text |-> text, i |-> 0, id |-> None]

Numbered(i, id) == [text |-> "numbered", i |-> i, id |-> id]

\* for i, t in enumerate(entries, 1): print(f"  {i}. {t[key]} ...")
\* Of a line only its number and the identifier it shows are kept.
numbered_lines(ids) == [i \in 1..Len(ids) |-> Numbered(i, ids[i])]

Request(method, url, body) == [method |-> method, url |-> url, body |-> body]

Quiet(c) ==
    [tasksFile |-> c.tasksFile, runsFile |-> c.runsFile, exit_code |-> 0,
     stdout |-> <<>>, requests |-> <<>>, exc |-> None, answer |-> NoAnswer,
     fetched |-> <<>>, returned |-> <<>>]

\* response.raise_for_status() on an error status
HTTPError(c, request) ==
    [Quiet(c) EXCEPT !.requests = <<request>>, !.exc = "HTTPError"]

\* print(text); sys.exit(1)
sys_exit_1(c, text) == [Quiet(c) EXCEPT !.stdout = <<Line(text)>>, !.exit_code = 1]

\* The listing's header line and its numbered lines or "(none found)".
listing_lines(header, ids) ==
    <<Line(header)>> \o (IF ids = <<>> THEN <<Line("(none found)")>> ELSE numbered_lines(ids))

ids_of(entries) == [i \in 1..Len(entries) |-> entries[i].id]

\* search and search.lower() not in tid.lower()
search_excludes(search, tid) ==
    truthy(search) /\ ~contains(lower(charsOf(tid)), lower(charsOf(search)))

(***************************************************************************)
(* list_tasks_local: the ./tasks folder is a sequence of files in os.walk  *)
(* order, each with its name and the values id_pattern finds in it, in     *)
(* order.                                                                  *)
(***************************************************************************)
RECURSIVE scan_matches(_, _, _)
scan_matches(matches, search, task_ids) ==
    IF matches = <<>> THEN task_ids
    ELSE LET tid == Head(matches)
             skip == \/ startswith(charsOf(tid), <<"$">>)
                     \/ search_excludes(search, tid)
                     \/ Has(task_ids, tid)
         IN  scan_matches(Tail(matches), search,
                          IF skip THEN task_ids ELSE Append(task_ids, tid))

RECURSIVE scan_files(_, _, _)
scan_files(files, search, task_ids) ==
    IF files = <<>> THEN task_ids
    ELSE LET f == Head(files)
         IN  scan_files(Tail(files), search,
                        IF endswith(charsOf(f.fname), <<".","t","s">>)
                        THEN scan_matches(f.ids, search, task_ids)
                        ELSE task_ids)

list_tasks_local(c, search) ==
    IF ~c.tasks_dir.exists
    THEN [Quiet(c) EXCEPT !.stdout = <<Line("No ./tasks folder found")>>]
    ELSE LET task_ids == scan_files(c.tasks_dir.files, search, <<>>)
             tasks == [i \in 1..Len(task_ids) |-> [id |-> sorted(task_ids)[i]]]
         IN  IF ~writable(c.tasksFile)
             THEN [Quiet(c) EXCEPT !.exc = "PermissionError"]
             ELSE [Quiet(c) EXCEPT
                     !.tasksFile = json_dump(c.tasksFile, tasks),
                     !.stdout = listing_lines("Tasks (local):", ids_of(tasks)),
                     !.returned = tasks]

(***************************************************************************)
(* list_tasks: the tasks of the recent runs, first occurrence of each.     *)
(* The "updated" member of an entry (a date prefix, only stored) is left   *)
(* out.                                                                    *)
(***************************************************************************)
RECURSIVE collect_tasks(_, _, _)
collect_tasks(runs, search, tasks) ==
    IF runs = <<>> THEN tasks
    ELSE LET run == Head(runs)
             task_id == run.taskIdentifier
             skip == \/ ~truthy(task_id)
                     \/ Has(ids_of(tasks), task_id)
                     \/ search_excludes(search, task_id)
         IN  collect_tasks(Tail(runs), search,
                           IF skip THEN tasks
                           ELSE Append(tasks, [id |-> task_id, status |-> run.status]))

list_tasks(c, search) ==
    LET request == Request("GET", <<"v1", "runs">>, None)
        tasks == collect_tasks(c.data, search, <<>>)
    IN  IF ~c.ok THEN HTTPError(c, request)
        ELSE IF ~writable(c.tasksFile)
        THEN [Quiet(c) EXCEPT !.requests = <<request>>, !.exc = "PermissionError"]
        ELSE [Quiet(c) EXCEPT
                !.requests = <<request>>,
                !.tasksFile = json_dump(c.tasksFile, tasks),
                !.stdout = listing_lines("Tasks:", ids_of(tasks)),
                !.returned = tasks]

(***************************************************************************)
(* list_schedules: prints the schedules and saves their tasks in the task  *)
(* cache file.                                                             *)
(***************************************************************************)
list_schedules(c) ==
    LET request == Request("GET", <<"v1", "schedules">>, None)
        schedules == c.data
        tasks == [i \in 1..Len(schedules) |->
                    [id |-> schedules[i].task, schedule_id |-> schedules[i].id]]
    IN  IF ~c.ok THEN HTTPError(c, request)
        ELSE IF ~writable(c.tasksFile)
        THEN [Quiet(c) EXCEPT
                !.requests = <<request>>,
                !.stdout = <<Line("Scheduled tasks:")>> \o numbered_lines(ids_of(tasks)),
                !.exc = "PermissionError"]
        ELSE [Quiet(c) EXCEPT
                !.requests = <<request>>,
                !.tasksFile = json_dump(c.tasksFile, tasks),
                !.stdout = <<Line("Scheduled tasks:")>> \o numbered_lines(ids_of(tasks)),
                !.returned = schedules]

(***************************************************************************)
(* list_runs.  A numbered line shows the run's task and the last eight     *)
(* characters of its id; the line is kept as its number and the run's id.  *)
(***************************************************************************)
TerminalStatuses == {"COMPLETED", "FAILED", "CANCELED"}

is_active_no_canceled(r) == r.status \notin {"COMPLETED", "FAILED"}

\* r.get("status") not in ("COMPLETED", "FAILED", "CANCELED")
is_active(r) == r.status \notin TerminalStatuses

\* list_runs saving into CACHE_FILE, the one cache file name of the top of
\* the script, instead of RUNS_CACHE_FILE.
list_runs_one_cache_file(c, active_only) ==
    LET request == Request("GET", <<"v1", "runs">>, None)
        runs == IF active_only THEN SelectSeq(c.data, is_active) ELSE c.data
        runs_cache == [i \in 1..Len(runs) |->
                         [run_id |-> runs[i].id, task_id |-> runs[i].taskIdentifier,
                          status |-> runs[i].status]]
    IN  IF ~c.ok THEN HTTPError(c, request)
        ELSE [Quiet(c) EXCEPT
                !.requests = <<request>>,
                !.fetched = c.data,
                !.tasksFile = json_dump(c.tasksFile, runs_cache),
                !.stdout = listing_lines(IF active_only THEN "In-progress runs:"
                                         ELSE "Recent runs:", ids_of(runs)),
                !.returned = runs]

list_runs(c, active_only) ==
    LET request == Request("GET", <<"v1", "runs">>, None)
        runs == IF active_only THEN SelectSeq(c.data, is_active) ELSE c.data
        runs_cache == [i \in 1..Len(runs) |->
                         [run_id |-> runs[i].id, task_id |-> runs[i].taskIdentifier,
                          status |-> runs[i].status]]
    IN  IF ~c.ok THEN HTTPError(c, request)
        ELSE IF ~writable(c.runsFile)
        THEN [Quiet(c) EXCEPT !.requests = <<request>>, !.exc = "PermissionError"]
        ELSE [Quiet(c) EXCEPT
                !.requests = <<request>>,
                !.fetched = c.data,
                !.runsFile = json_dump(c.runsFile, runs_cache),
                !.stdout = listing_lines(IF active_only THEN "In-progress runs:"
                                         ELSE "Recent runs:", ids_of(runs)),
                !.returned = runs]

(***************************************************************************)
(* cancel_run, run_task.  TRIGGER_PROJECT_ID is taken to be unset, so no   *)
(* dashboard URL is printed or opened and auto_open has no effect.         *)
(***************************************************************************)
cancel_run(c, run_id, skip_confirm) ==
    LET request == Request("POST", <<"v2", "runs", run_id, "cancel">>, None)
        asked == IF skip_confirm THEN NoAnswer ELSE c.answer
    IN  IF ~skip_confirm /\ ~confirm(c.answer)
        THEN [Quiet(c) EXCEPT !.answer = asked, !.stdout = <<Line("Cancelled")>>]
        ELSE IF ~c.ok
        THEN [HTTPError(c, request) EXCEPT !.answer = asked]
        ELSE [Quiet(c) EXCEPT !.answer = asked, !.requests = <<request>>,
                              !.stdout = <<Line("Cancelled run")>>]

EmptyObject == "{}"

\* payload or {}
payload_or_empty(payload) == IF payload = None THEN EmptyObject ELSE payload

run_task(c, task_id, payload, auto_open, skip_confirm) ==
    LET request == Request("POST", <<"v1", "tasks", task_id, "trigger">>,
                           payload_or_empty(payload))
        asked == IF skip_confirm THEN NoAnswer ELSE c.answer
    IN  IF ~skip_confirm /\ ~confirm(c.answer)
        THEN [Quiet(c) EXCEPT !.answer = asked, !.stdout = <<Line("Cancelled")>>]
        ELSE IF ~c.ok
        THEN [HTTPError(c, request) EXCEPT !.answer = asked]
        ELSE [Quiet(c) EXCEPT !.answer = asked, !.requests = <<request>>,
                              !.stdout = <<Line("Triggered")>>]

(***************************************************************************)
(* main                                                                    *)
(***************************************************************************)
\* json.loads of a command-line word: the two JSON texts used as payloads
\* parse to themselves as values, anything else is not JSON.
json_loads(word) ==
    IF word \in {"{}", "{\"force\":true}"} THEN Ret(word) ELSE Raise("JSONDecodeError")

\* An exception nothing catches inside main.
Uncaught(c, exc) == [Quiet(c) EXCEPT !.exc = exc]

\* args[1] if len(args) > 1 else None
second_or_None(args) == IF Len(args) > 1 THEN args[2] ELSE None

main_cancel(c, args, skip_confirm) ==
    IF Len(args) < 2 THEN sys_exit_1(c, "Usage: trigger cancel <run_id|number>")
    ELSE LET target == args[2]
             r == get_cached_run(c.runsFile, int(target))
         IN  IF isdigit(target)
             THEN IF r.exc # None THEN Uncaught(c, r.exc)
                  ELSE IF ~truthy(r.value) THEN sys_exit_1(c, "Run 'trigger runs' first")
                  ELSE cancel_run(c, r.value, skip_confirm)
             ELSE cancel_run(c, target, skip_confirm)

main_run_resolving(c, args, auto_open, skip_confirm) ==
    IF Len(args) < 2 THEN sys_exit_1(c, "Usage: trigger run <task_id>")
    ELSE LET target == args[2]
             r == get_cached_task(c.tasksFile, int(target))
         IN  IF isdigit(target)
             THEN IF r.exc # None THEN Uncaught(c, r.exc)
                  ELSE IF ~truthy(r.value) THEN sys_exit_1(c, "Run 'trigger list' first")
                  ELSE run_task(c, r.value, None, auto_open, skip_confirm)
             ELSE run_task(c, target, None, auto_open, skip_confirm)

main_run(c, args, auto_open, skip_confirm) ==
    IF Len(args) < 2 THEN sys_exit_1(c, "Usage: trigger run <task_id>")
    ELSE LET task_id == args[2]
             p_idx == CHOOSE i \in 1..Len(args) : args[i] = "-p" /\ \A j \in 1..(i - 1) : args[j] # "-p"
             loaded == IF p_idx + 1 > Len(args) THEN Raise("IndexError")
                       ELSE json_loads(args[p_idx + 1])
         IN  IF ~Has(args, "-p") THEN run_task(c, task_id, None, auto_open, skip_confirm)
             ELSE IF loaded.exc # None THEN Uncaught(c, loaded.exc)
             ELSE run_task(c, task_id, loaded.value, auto_open, skip_confirm)

main_ordinal(c, args, auto_open, skip_confirm) ==
    LET r == get_cached_task(c.tasksFile, int(args[1]))
    IN  IF r.exc # None THEN Uncaught(c, r.exc)
        ELSE IF ~truthy(r.value) THEN sys_exit_1(c, "Run 'trigger list' first")
        ELSE run_task(c, r.value, None, auto_open, skip_confirm)

main_list(c, args) ==
    IF Has(args, "--local")
    THEN list_tasks_local(c, second_or_None(Without(args, {"--local"})))
    ELSE list_tasks(c, second_or_None(args))

main(c, argv) ==
    IF Has(argv, "-h") \/ Has(argv, "--help")
    THEN [Quiet(c) EXCEPT !.stdout = <<Line("usage")>>]
    ELSE IF ~truthy(c.API_KEY) THEN sys_exit_1(c, "TRIGGER_SECRET_KEY not set")
    ELSE LET skip_confirm == Has(argv, "-y")
             auto_open == Has(argv, "--open")
             args == Without(argv, {"-y", "--open"})
         IN  IF args = <<>> THEN list_tasks(c, None)
             ELSE IF args[1] = "list" THEN main_list(c, args)
             ELSE IF args[1] = "schedules" THEN list_schedules(c)
             ELSE IF args[1] = "runs" THEN list_runs(c, Has(args, "--active"))
             ELSE IF args[1] = "cancel" THEN main_cancel(c, args, skip_confirm)
             ELSE IF args[1] = "run" THEN main_run(c, args, auto_open, skip_confirm)
             ELSE IF isdigit(args[1]) THEN main_ordinal(c, args, auto_open, skip_confirm)
             ELSE run_task(c, args[1], None, auto_open, skip_confirm)

\* The __main__ block: main() under except HTTPError (message, exit 1).
\* Any other exception ends the process with a traceback and exit code 1.
\* KeyboardInterrupt outside the prompt is not modelled.
run_script(c, argv) ==
    LET e == main(c, argv)
    IN  IF e.exc = "HTTPError"
        THEN [e EXCEPT !.exc = None, !.exit_code = 1, !.stdout = <<Line("API error")>>]
        ELSE IF e.exc # None THEN [e EXCEPT !.exit_code = 1]
        ELSE e

(***************************************************************************)
(* The inputs that are enumerated.                                         *)
(***************************************************************************)
Run(id, taskIdentifier, status) ==
    [id |-> id, taskIdentifier |-> taskIdentifier, status |-> status]

\* Runs the API may list; None is a key the run does not have.
RunPool ==
    { Run("run_a", "sendEmail", "EXECUTING"),
      Run("run_b", "sendSms", "COMPLETED"),
      Run("run_c", "sendEmail", "FAILED"),
      Run("run_d", None, "CANCELED") }

\* A listing shows an object once.
Distinct(seq) == \A i, j \in 1..Len(seq) : i # j => seq[i].id # seq[j].id

RunsData == {runs \in SeqsUpTo(RunPool, MaxRuns) : Distinct(runs)}

SchedulePool ==
    { [id |-> "sched_1", task |-> "sendEmail"],
      [id |-> "sched_2", task |-> "archiveUser"] }

SchedulesData == {ss \in SeqsUpTo(SchedulePool, MaxSchedules) : Distinct(ss)}

FilePool ==
    { [fname |-> "email.ts",
       ids |-> <<"sendEmail", "$campaignId", "archiveUser", "sendEmail">>],
      [fname |-> "email.ts", ids |-> <<"sendSms", "Zeta">>],
      [fname |-> "README.md", ids |-> <<"sendSms">>] }

NoTasksDir == [exists |-> FALSE, files |-> <<>>]

TasksDirs ==
    {NoTasksDir} \cup {[exists |-> TRUE, files |-> fs] : fs \in SeqsUpTo(FilePool, MaxFiles)}

Searches == {"SEND", "user"}

\* The ordinals typed: 0 up to one more than the longest list.
OrdinalWords == {w \in {"0", "1", "2", "3", "4", "5"} : int(w) <= MaxRuns + 1}

Flags == {<<>>, <<"-y">>}

HelpArgv == {<<"-h">>, <<"--help">>, <<"run", "sendEmail", "-h">>}

ListArgv == {<<>>, <<"list">>} \cup {<<"list", s>> : s \in Searches}

ListLocalArgv ==
    {<<"list", "--local">>} \cup {<<"list", "--local", s>> : s \in Searches}

SchedulesArgv == {<<"schedules">>}

RunsArgv == {<<"runs">>, <<"runs", "--active">>}

CancelArgv ==
    {<<"cancel">>} \cup
    {<<"cancel", t>> \o f : t \in OrdinalWords \cup {"run_a"}, f \in Flags}

RunArgv ==
    {<<"run">>, <<"run", "sendEmail", "--open", "-y">>, <<"run", "sendEmail", "-p">>,
     <<"run", "sendEmail", "-p", "{\"force\":true}", "-y">>,
     <<"run", "sendEmail", "-p", "{}", "-y">>,
     <<"run", "sendEmail", "-p", "{force", "-y">>} \cup
    {<<"run", t>> \o f : t \in OrdinalWords \cup {"sendEmail"}, f \in Flags}

OrdinalArgv == {<<t>> \o f : t \in OrdinalWords, f \in Flags}

TaskIdArgv == {<<"sendEmail">> \o f : f \in Flags}

\* Commands of every row of the grammar but help, tried without credential.
CredentialArgv ==
    {<<>>, <<"list", "SEND">>, <<"list", "--local">>, <<"schedules">>, <<"runs">>,
     <<"runs", "--active">>, <<"cancel">>, <<"cancel", "1">>, <<"cancel", "run_a", "-y">>,
     <<"run", "sendEmail">>, <<"run", "1", "-y">>, <<"1">>, <<"1", "-y">>,
     <<"sendEmail", "-y">>}

ApiKey == "tr_dev_1"

(***************************************************************************)
(* State: the two cache files, and the process.  At pc = "prompt" no       *)
(* process is running and the shell waits for a command; an invocation     *)
(* runs the script to its end and leaves pc = "exited" with what the       *)
(* process did in last; then the shell prompts again and that is gone.     *)
(***************************************************************************)
VARIABLES tasksFile, runsFile, pc, last

vars == <<tasksFile, runsFile, pc, last>>

\* What an invocation was given and did; tasks_before and runs_before are
\* the cache files as the process found them.
Observed(argv, API_KEY, e, tasks_before, runs_before) ==
    [argv |-> argv, API_KEY |-> API_KEY,
     tasks_before |-> tasks_before, runs_before |-> runs_before,
     exit_code |-> e.exit_code,
     stdout |-> e.stdout, requests |-> e.requests, exc |-> e.exc,
     answer |-> e.answer, fetched |-> e.fetched, returned |-> e.returned]

Nothing ==
    Observed(<<>>, None,
             [exit_code |-> 0, stdout |-> <<>>, requests |-> <<>>, exc |-> None,
              answer |-> NoAnswer, fetched |-> <<>>, returned |-> <<>>],
             Absent, Absent)

\* Neither file has been written; nothing has run.
Init ==
    /\ tasksFile = Absent
    /\ runsFile = Absent
    /\ pc = "prompt"
    /\ last = Nothing

\* One run of the script, from start to exit, typed at the prompt.
Invoke(argv, API_KEY, ok, data, tasks_dir, answer) ==
    LET c == [tasksFile |-> tasksFile, runsFile |-> runsFile, API_KEY |-> API_KEY,
              ok |-> ok, data |-> data, tasks_dir |-> tasks_dir, answer |-> answer]
        e == run_script(c, argv)
    IN  /\ pc = "prompt"
        /\ pc' = "exited"
        /\ tasksFile' = e.tasksFile
        /\ runsFile' = e.runsFile
        /\ last' = Observed(argv, API_KEY, e, tasksFile, runsFile)

\* The API's answer: success with a data array, or an error status.
Answered(ok, dataset) == IF ok THEN dataset ELSE {<<>>}

Help ==
    \E argv \in HelpArgv, key \in {None, ApiKey} :
        Invoke(argv, key, TRUE, <<>>, NoTasksDir, NoAnswer)

MissingCredential ==
    \E argv \in CredentialArgv, key \in {None, ""} :
        Invoke(argv, key, TRUE, <<>>, NoTasksDir, NoAnswer)

ListTasks ==
    \E argv \in ListArgv, ok \in BOOLEAN :
        \E data \in Answered(ok, RunsData) :
            Invoke(argv, ApiKey, ok, data, NoTasksDir, NoAnswer)

ListTasksLocal ==
    \E argv \in ListLocalArgv, tasks_dir \in TasksDirs :
        Invoke(argv, ApiKey, TRUE, <<>>, tasks_dir, NoAnswer)

ListSchedules ==
    \E argv \in SchedulesArgv, ok \in BOOLEAN :
        \E data \in Answered(ok, SchedulesData) :
            Invoke(argv, ApiKey, ok, data, NoTasksDir, NoAnswer)

ListRuns ==
    \E argv \in RunsArgv, ok \in BOOLEAN :
        \E data \in Answered(ok, RunsData) :
            Invoke(argv, ApiKey, ok, data, NoTasksDir, NoAnswer)

Cancel ==
    \E argv \in CancelArgv, ok \in BOOLEAN, answer \in Answers :
        Invoke(argv, ApiKey, ok, <<>>, NoTasksDir, answer)

RunTask ==
    \E argv \in RunArgv, ok \in BOOLEAN, answer \in Answers :
        Invoke(argv, ApiKey, ok, <<>>, NoTasksDir, answer)

RunOrdinal ==
    \E argv \in OrdinalArgv, ok \in BOOLEAN, answer \in Answers :
        Invoke(argv, ApiKey, ok, <<>>, NoTasksDir, answer)

RunTaskId ==
    \E argv \in TaskIdArgv, ok \in BOOLEAN, answer \in Answers :
        Invoke(argv, ApiKey, ok, <<>>, NoTasksDir, answer)

\* The process is gone; the shell prompts for the next command.
Prompt ==
    /\ pc = "exited"
    /\ pc' = "prompt"
    /\ last' = Nothing
    /\ UNCHANGED <<tasksFile, runsFile>>

Next ==
    \/ Help
    \/ MissingCredential
    \/ ListTasks
    \/ ListTasksLocal
    \/ ListSchedules
    \/ ListRuns
    \/ Cancel
    \/ RunTask
    \/ RunOrdinal
    \/ RunTaskId
    \/ Prompt

Spec == Init /\ [][Next]_vars

(***************************************************************************)
(* The same program where the user's home directory is not the script's    *)
(* alone: between invocations a cache file may be removed, have its        *)
(* permissions taken away, or be overwritten with something else.          *)
(***************************************************************************)
ForeignFiles ==
    { Absent, Unreadable, Garbage,
      File("json", "object", <<>>),
      File("json", "scalar", <<>>),
      File("json", "array", <<JsonScalar>>),
      File("json", "array", <<JsonObject([name |-> "sendEmail"])>>) }

TouchTasksFile ==
    /\ pc = "prompt"
    /\ \E f \in ForeignFiles : tasksFile' = f
    /\ UNCHANGED <<runsFile, pc, last>>

TouchRunsFile ==
    /\ pc = "prompt"
    /\ \E f \in ForeignFiles : runsFile' = f
    /\ UNCHANGED <<tasksFile, pc, last>>

NextFS ==
    \/ Next
    \/ TouchTasksFile
    \/ TouchRunsFile

SpecFS == Init /\ [][NextFS]_vars

(***************************************************************************)
(* Reading the record of an invocation.                                    *)
(***************************************************************************)
Exited == pc = "exited"

Args == Without(last.argv, {"-y", "--open"})

AskedHelp == Has(last.argv, "-h") \/ Has(last.argv, "--help")

HasCredential == last.API_KEY \notin {None, ""}

\* The invocation got past help and the credential check.
Dispatched == Exited /\ ~AskedHelp /\ HasCredential

\* The row of the command grammar the arguments fall in.
Command ==
    IF Args = <<>> THEN "list"
    ELSE IF Args[1] \in {"list", "schedules", "runs", "cancel", "run"} THEN Args[1]
    ELSE IF isdigit(Args[1]) THEN "ordinal"
    ELSE "task"

CancelByOrdinal == Command = "cancel" /\ Len(Args) >= 2 /\ isdigit(Args[2])

RunByOrdinal == Command = "run" /\ Len(Args) >= 2 /\ isdigit(Args[2])

\* The list a cache file holds; a file that is not there holds none.
CacheList(file) ==
    IF file.st = "json" /\ file.top = "array"
    THEN [i \in 1..Len(file.items) |-> file.items[i].members]
    ELSE <<>>

ApiErrorShown == last.stdout = <<Line("API error")>>

Headers == {"Tasks:", "Tasks (local):", "Scheduled tasks:", "Recent runs:", "In-progress runs:"}

\* The invocation was a listing that ran to its end and printed its list.
Listed ==
    /\ Dispatched
    /\ Command \in {"list", "schedules", "runs"}
    /\ last.exit_code = 0
    /\ last.stdout # <<>>
    /\ last.stdout[1].text \in Headers

\* The display as the user reads it: for each number printed in front of
\* a line, the identifier on that line (None for a number not printed).
DisplayedIds ==
    LET lines == SelectSeq(last.stdout, LAMBDA l : l.text = "numbered")
        at(n) == {k \in 1..Len(lines) : lines[k].i = n}
    IN  [n \in 1..Len(lines) |->
            IF at(n) = {} THEN None ELSE lines[CHOOSE k \in at(n) : TRUE].id]

\* The entries a listing is to have saved, from the list it returned.
ListedEntries ==
    IF Command = "runs"
    THEN [i \in 1..Len(last.returned) |->
            [run_id |-> last.returned[i].id, task_id |-> last.returned[i].taskIdentifier,
             status |-> last.returned[i].status]]
    ELSE IF Command = "schedules"
    THEN [i \in 1..Len(last.returned) |->
            [id |-> last.returned[i].task, schedule_id |-> last.returned[i].id]]
    ELSE last.returned

\* The cache file of the kind the command lists or resolves on.
OwnFile == IF Command \in {"runs", "cancel"} THEN runsFile ELSE tasksFile

OwnFileBefore ==
    IF Command \in {"runs", "cancel"} THEN last.runs_before ELSE last.tasks_before

IdOf(entry) == IF "run_id" \in DOMAIN entry THEN entry.run_id ELSE entry.id

IdsOf(entries) == [i \in 1..Len(entries) |-> IdOf(entries[i])]

Resolve(file, n) ==
    IF Command \in {"runs", "cancel"} THEN get_cached_run(file, n) ELSE get_cached_task(file, n)

Elements(seq) == {seq[i] : i \in 1..Len(seq)}

HintShown ==
    /\ last.exit_code = 1
    /\ last.requests = <<>>
    /\ last.stdout = <<Line(IF Command = "cancel" THEN "Run 'trigger runs' first"
                            ELSE "Run 'trigger list' first")>>

\* The ordinal of a bare <n> or a cancel <n>.
Ordinal == IF Command = "ordinal" THEN int(Args[1]) ELSE int(Args[2])

\* The URL a trigger or cancel of the given identifier goes to.
MutationUrl(id) ==
    IF Command = "cancel" THEN <<"v2", "runs", id, "cancel">>
    ELSE <<"v1", "tasks", id, "trigger">>

\* The answers that are y or yes once trimmed, in any letter case.
AffirmativeAnswers == {TypedLine(<<"y">>), TypedLine(<<" ","Y","E","S"," ">>)}

(***************************************************************************)
(* C1                                                                      *)
(***************************************************************************)
\* C1: once a listing has saved its N entries, every ordinal i in 1..N
\* resolves on that cache to the identifier of the i-th entry listed (the
\* one numbered i in the display); and a bare <i> or a cancel <i> with i in
\* 1..N of the cache as it stands acts on the identifier of the i-th entry
\* of the cache, never on another and never with the "run the listing
\* first" hint.
C1_OrdinalRoundTrip ==
    /\ Listed =>
          /\ DisplayedIds = IdsOf(ListedEntries)
          /\ \A i \in 1..Len(ListedEntries) :
                Resolve(OwnFile, i) = Ret(IdOf(ListedEntries[i]))
    /\ (Dispatched /\ (Command = "ordinal" \/ CancelByOrdinal)
          /\ Ordinal \in 1..Len(CacheList(OwnFile))) =>
          /\ ~HintShown
          /\ last.exc = None
          /\ (Has(last.argv, "-y") \/ last.answer \in AffirmativeAnswers) =>
                Len(last.requests) = 1
          /\ \A k \in 1..Len(last.requests) :
                last.requests[k].url = MutationUrl(IdOf(CacheList(OwnFile)[Ordinal]))

C1_Witness ==
    /\ Dispatched
    /\ Command = "ordinal"
    /\ Ordinal = 2
    /\ Len(CacheList(tasksFile)) = 2
    /\ CacheList(tasksFile)[1].id # CacheList(tasksFile)[2].id
    /\ last.exit_code = 0
    /\ Len(last.requests) = 1
    /\ last.requests[1].url = <<"v1", "tasks", CacheList(tasksFile)[2].id, "trigger">>

(***************************************************************************)
(* C2                                                                      *)
(***************************************************************************)
\* C2: with a cache of N entries, a bare <n> or a cancel <n> whose ordinal
\* is 0 or N+1, or any ordinal when the cache is empty or was never
\* written, ends with the "run the listing command first" hint and exit
\* code 1, and issues no request.
C2_OutOfRangeIsNotFound ==
    (Dispatched /\ (Command = "ordinal" \/ CancelByOrdinal)
       /\ \/ Ordinal = 0
          \/ Ordinal = Len(CacheList(OwnFile)) + 1
          \/ CacheList(OwnFile) = <<>>)
    => HintShown

(***************************************************************************)
(* C3                                                                      *)
(***************************************************************************)
\* C3: when a listing has saved its list B over a cache that held a list
\* A, the cache holds B and nothing else, in B's order and of B's length,
\* and every ordinal resolves to None or to an identifier of B, the one at
\* its position in B for an ordinal from 1 on; nothing that was only in A
\* is left.
C3_SaveReplaces ==
    Listed =>
        /\ OwnFile.st = "json"
        /\ CacheList(OwnFile) = ListedEntries
        /\ Len(OwnFile.items) = Len(ListedEntries)
        /\ \A n \in 0..(Len(CacheList(OwnFileBefore)) + Len(ListedEntries) + 1) :
              LET r == Resolve(OwnFile, n)
              IN  /\ r.exc = None
                  /\ r.value \in {None} \cup Elements(IdsOf(ListedEntries))
                  /\ n >= 1 =>
                        r.value = IF n <= Len(ListedEntries)
                                  THEN IdOf(ListedEntries[n]) ELSE None

C3_Witness ==
    /\ Listed
    /\ Command = "list"
    /\ Len(ListedEntries) = 1
    /\ Len(CacheList(last.tasks_before)) = 2
    /\ \A i \in 1..2 : CacheList(last.tasks_before)[i].id # ListedEntries[1].id
    /\ get_cached_task(tasksFile, 1) = Ret(ListedEntries[1].id)
    /\ get_cached_task(tasksFile, 2) = Ret(None)

(***************************************************************************)
(* C4                                                                      *)
(***************************************************************************)
\* What a bare <n> does with the task cache as it stands: the hint when n
\* does not resolve, otherwise nothing but a trigger of the task n
\* resolves to.
AsBareOrdinal(n) ==
    LET r == get_cached_task(tasksFile, n)
    IN  IF r.exc = None /\ r.value \in {None, ""}
        THEN HintShown
        ELSE /\ ~HintShown
             /\ \A k \in 1..Len(last.requests) :
                   last.requests[k].url = <<"v1", "tasks", r.value, "trigger">>

\* C4 as claimed: run <n> with an all-digit n resolves n through the task
\* cache and so does what the bare <n> does: triggers the task n resolves
\* to, or shows the hint and exits 1 when n does not resolve.
C4_RunResolvesOrdinal ==
    (Dispatched /\ RunByOrdinal /\ ~Has(Args, "-p")) => AsBareOrdinal(int(Args[2]))

\* C4 as amended: run <arg> takes <arg> as the task identifier as typed,
\* all digits or not: it never shows the hint and whatever it requests is
\* the trigger of the task named <arg>; only the bare <n> goes through the
\* task cache.
C4_RunTakesArgumentLiterally ==
    /\ (Dispatched /\ Command = "run" /\ Len(Args) >= 2) =>
          /\ ~HintShown
          /\ \A k \in 1..Len(last.requests) :
                last.requests[k].url = <<"v1", "tasks", Args[2], "trigger">>
          /\ (Has(last.argv, "-y") /\ ~Has(Args, "-p")) => Len(last.requests) = 1
    /\ (Dispatched /\ Command = "ordinal") => AsBareOrdinal(int(Args[1]))

C4_Witness ==
    /\ Dispatched
    /\ last.argv = <<"run", "1", "-y">>
    /\ Len(CacheList(tasksFile)) >= 1
    /\ CacheList(tasksFile)[1].id = "sendEmail"
    /\ last.exit_code = 0
    /\ last.requests = <<Request("POST", <<"v1", "tasks", "1", "trigger">>, EmptyObject)>>

(***************************************************************************)
(* C5                                                                      *)
(***************************************************************************)
\* The invocation is a run or a cancel, in any of its forms, without -y.
MutationWithoutYes ==
    /\ Dispatched
    /\ Command \in {"run", "cancel", "ordinal", "task"}
    /\ ~Has(last.argv, "-y")

\* C5: in a run or cancel without -y (bare forms included) that got an
\* answer at its prompt other than y or yes (trimmed, any letter case),
\* the empty line, end of input and interrupt included, no request is
\* issued, "Cancelled" is printed and the exit code is 0; and such an
\* invocation issues no request without having asked.
C5_DeclineSendsNothing ==
    MutationWithoutYes =>
        /\ (last.answer # NoAnswer /\ last.answer \notin AffirmativeAnswers) =>
              /\ last.requests = <<>>
              /\ last.stdout = <<Line("Cancelled")>>
              /\ last.exit_code = 0
              /\ last.exc = None
        /\ last.requests # <<>> => last.answer \in AffirmativeAnswers

C5_Witness ==
    /\ MutationWithoutYes
    /\ CancelByOrdinal
    /\ Ordinal \in 1..Len(CacheList(runsFile))
    /\ last.answer = TypedLine(<<>>)
    /\ last.requests = <<>>
    /\ last.stdout = <<Line("Cancelled")>>
    /\ last.exit_code = 0

(***************************************************************************)
(* C6                                                                      *)
(***************************************************************************)
FilesUntouched == tasksFile = last.tasks_before /\ runsFile = last.runs_before

\* C6: an invocation with -h or --help among its arguments prints the
\* usage and ends with code 0, credential or not; any other invocation
\* without the credential (unset or empty) ends with code 1 having printed
\* only that the key is not set: no request, no prompt, no cache written.
C6_MissingCredentialExits ==
    Exited =>
        /\ AskedHelp =>
              /\ last.stdout = <<Line("usage")>>
              /\ last.exit_code = 0
              /\ last.requests = <<>>
              /\ FilesUntouched
        /\ (~AskedHelp /\ ~HasCredential) =>
              /\ last.exit_code = 1
              /\ last.stdout = <<Line("TRIGGER_SECRET_KEY not set")>>
              /\ last.requests = <<>>
              /\ last.answer = NoAnswer
              /\ last.exc = None
              /\ FilesUntouched

C6_Witness ==
    /\ Exited
    /\ last.API_KEY = ""
    /\ last.argv = <<"1", "-y">>
    /\ Len(CacheList(tasksFile)) >= 1
    /\ last.exit_code = 1
    /\ last.requests = <<>>

(***************************************************************************)
(* C7                                                                      *)
(***************************************************************************)
\* C7: whatever is at the cache file's place (nothing, a file that cannot
\* be opened, a file that does not hold a saved list, a saved list), a
\* bare <n> or a cancel <n> ends without an uncaught exception: the lookup
\* gives an identifier or None, and on None the hint is shown with exit
\* code 1.
C7_LookupNeverRaises ==
    (Dispatched /\ (Command = "ordinal" \/ CancelByOrdinal)) =>
        /\ last.exc = None
        /\ Resolve(OwnFile, Ordinal).exc = None
        /\ Resolve(OwnFile, Ordinal).value = None => HintShown

(***************************************************************************)
(* C8                                                                      *)
(***************************************************************************)
\* C8: every no-args, list, list --local or runs invocation that does not
\* fail with an API error leaves the cache of its kind holding exactly the
\* list it produced and displayed, empty or not.
C8_ListingOverwritesCache ==
    (Dispatched /\ Command \in {"list", "runs"} /\ ~ApiErrorShown) =>
        /\ CacheList(OwnFile) = ListedEntries
        /\ DisplayedIds = IdsOf(ListedEntries)

(***************************************************************************)
(* C9                                                                      *)
(***************************************************************************)
\* The positions of the fetched runs whose status is not terminal.
ActivePositions ==
    {i \in 1..Len(last.fetched) :
        last.fetched[i].status \notin {"COMPLETED", "FAILED", "CANCELED"}}

\* The k-th smallest element of a set of numbers.
KthOf(P, k) == CHOOSE p \in P : Cardinality({q \in P : q <= p}) = k

TaskListing == Dispatched /\ Command = "list"

\* C10 as claimed: the run cache file changes only in a runs invocation
\* and the task cache file only in a task listing (no-args, list, list
\* --local); schedules, run, cancel, the bare forms and help change
\* neither.
C10_OnlyOwnListingWrites ==
    Exited =>
        /\ runsFile # last.runs_before => (Dispatched /\ Command = "runs")
        /\ tasksFile # last.tasks_before => TaskListing

\* C10 as amended: the run cache file changes only in a runs invocation;
\* the task cache file changes only in a task listing or in a schedules
\* invocation, which saves the tasks of the schedules it printed; run,
\* cancel, the bare forms, help and an invocation without credential
\* change neither, runs leaves the task cache alone, and task listings and
\* schedules leave the run cache alone.
C10_OnlyListingsWrite ==
    Exited =>
        /\ runsFile # last.runs_before => (Dispatched /\ Command = "runs")
        /\ tasksFile # last.tasks_before =>
              (TaskListing \/ (Dispatched /\ Command = "schedules"))
        /\ (Listed /\ Command = "schedules") => CacheList(tasksFile) = ListedEntries

C10_Witness ==
    /\ Listed
    /\ Command = "schedules"
    /\ Len(last.returned) = 1
    /\ CacheList(last.tasks_before) # <<>>
    /\ CacheList(tasksFile) = <<[id |-> last.returned[1].task,
                                 schedule_id |-> last.returned[1].id]>>
    /\ tasksFile # last.tasks_before
    /\ runsFile = last.runs_before
    /\ CacheList(runsFile) # <<>>

====
